---- MODULE Spec2Model ----
(***************************************************************************)
(* Content plugin manager of pulp (src/src/pulp/server/content/manager.py) *)
(* and, in the last part, the repository api (src/src/pulp/api/repo.py).   *)
(*                                                                         *)
(* The state is the process-wide `_manager` reference, the fields of the   *)
(* Manager it refers to, and the outcome of the last call.  The file       *)
(* system the manager scans is fixed at start-up and chosen in Init.       *)
(* Every call is one step; a call that raises leaves the exception's name  *)
(* in lastErr and keeps the mutations the code made before the raise.      *)
(***************************************************************************)
EXTENDS Naturals, Sequences, FiniteSets, TLC

VARIABLES
    readable,           \* directories for which os.access(path, F_OK | R_OK) holds
    confFiles,          \* configuration directory -> (file name -> parsed content)
    pluginFiles,        \* plugin directory -> (file name -> module)
    manager,            \* the module global _manager: None or a Manager
    lastCall,           \* name of the last call made
    lastArgs,           \* arguments of the last call (<<>> when it takes none)
    lastErr,            \* exception the last call raised, "none" when it returned
    lastResult,         \* value the last call returned (None when it raised or returns nothing)
    importerLoads,      \* history: load_importers calls made on the current manager
    distributorLoads,   \* history: load_distributors calls made on the current manager
    finalized,          \* history: some finalize() call has returned
    repos,              \* the documents of the db.repos collection
    schedules           \* repository id -> sync schedule installed by repo_sync

vars == <<readable, confFiles, pluginFiles, manager, lastCall, lastArgs,
          lastErr, lastResult, importerLoads, distributorLoads, finalized,
          repos, schedules>>

\* what is outside the manager: the file system and the database
env == <<readable, confFiles, pluginFiles, repos, schedules>>
hist == <<importerLoads, distributorLoads, finalized>>

----------------------------------------------------------------------------
(* Bounds *)

\* configuration directories registered with one manager
MaxPaths == 2
\* load_* calls made on one manager
MaxLoads == 2
\* documents in the db.repos collection
MaxDocs == 2

----------------------------------------------------------------------------
(* Python values *)

\* the None object
None == [py |-> "None"]
\* None where the other values are strings (metadata.get(key, None))
NoneStr == "<None>"
\* an empty dict
EmptyDict == <<>>

\* d.get(key, default)
DictGet(d, key, default) == IF key \in DOMAIN d THEN d[key] ELSE default

\* d[key] = value
DictSet(d, key, value) ==
    [k \in (DOMAIN d) \cup {key} |-> IF k = key THEN value ELSE d[k]]

\* a dict is false when it is empty
Truthy(d) == DOMAIN d # {}

----------------------------------------------------------------------------
(* Convention directories, manager.py lines 37-47 *)

_importer_configs_dir == "/etc/pulp/importers"
_distributor_configs_dir == "/etc/pulp/distributors"
_importer_plugins_dir == "content/importers"
_distributor_plugins_dir == "content/distributors"
_importer_plugins_package == "pulp.server.content.importers"
_distributor_plugins_package == "pulp.server.content.distributors"

ConfigDirs == {_importer_configs_dir, _distributor_configs_dir}
PluginDirs == {_importer_plugins_dir, _distributor_plugins_dir}
Paths == ConfigDirs \cup PluginDirs
\* package_name arguments; NoneStr is the default package_name=None
Packages == {_importer_plugins_package, _distributor_plugins_package, NoneStr}

----------------------------------------------------------------------------
(* The file system *)

ConfA == "a.conf"
ConfB == "b.conf"
Notes == "notes.txt"

\* file_name.rsplit('.', 1) of the file names in use: <<stem, extension>>
SplitExt ==
    ("a.conf" :> <<"a", "conf">>) @@ ("b.conf" :> <<"b", "conf">>)
    @@ ("notes.txt" :> <<"notes", "txt">>)
    @@ ("a.py" :> <<"a", "py">>) @@ ("b.py" :> <<"b", "py">>)
    @@ ("__init__.py" :> <<"__init__", "py">>) @@ ("base.py" :> <<"base", "py">>)

\* Parsed contents of a configuration file: section -> (option -> value).
CfgEmpty == EmptyDict
CfgNoKey == [foo |-> EmptyDict]
CfgTrue == [foo |-> [enabled |-> "yes"]]
CfgFalse == [foo |-> [enabled |-> "false"]]
CfgBad == [foo |-> [enabled |-> "maybe"]]
CfgValues == {CfgEmpty, CfgNoKey, CfgTrue, CfgFalse, CfgBad}

\* What a configuration directory may hold.
ConfListings ==
    { (ConfA :> CfgFalse) @@ (Notes :> CfgEmpty),
      (ConfA :> CfgNoKey) @@ (ConfB :> CfgTrue) }

\* A plugin class: its symbol, the contract it implements and what its
\* metadata() returns (a dict; absent keys are absent from the domain).
Class(sym, base, md) == [sym |-> sym, base |-> base, metadata |-> md]
\* A top-level symbol of a module that is not a class.
Value(sym) == [sym |-> sym, base |-> "value", metadata |-> EmptyDict]

Meta(name, version) == [name |-> name, version |-> version, types |-> <<"rpm">>]

\* metadata() of a plugin that names its configuration file
MetaConf(name, version, conf_file) ==
    [name |-> name, version |-> version, types |-> <<"rpm">>, conf_file |-> conf_file]

\* A module is the sequence of its top-level symbols.
Mod(classes) == <<Value("__name__")>> \o classes
\* A source file whose import raises: import_module (line 160) never returns
\* a module for it.
Broken == <<[sym |-> "<ImportError>", base |-> "raises", metadata |-> EmptyDict]>>

\* The plugin source files of one directory, for plugins of contract base.
PluginListing(base, scenario) ==
    LET skipped == ("__init__.py" :> Mod(<<>>)) @@ ("base.py" :> Mod(<<>>))
        a(md) == ("a.py" :> Mod(<<Class("Foo", base, md)>>))
        b(md) == ("b.py" :> Mod(<<Class("Bar", base, md)>>))
    IN  CASE scenario = "versions" ->
               skipped @@ a(Meta("foo", "1.0")) @@ b(Meta("foo", "2.0"))
          [] scenario = "same_identity" ->
               skipped @@ a(Meta("foo", "1.0")) @@ b(Meta("foo", "1.0"))
          [] scenario = "same_version" ->
               skipped @@ a(Meta("foo", "1.0")) @@ b(Meta("bar", "1.0"))
          [] scenario = "no_name" ->
               skipped @@ a(Meta("foo", "1.0")) @@ b([version |-> "1.0"])
          [] scenario = "empty_name" ->
               skipped @@ a(Meta("foo", "1.0")) @@ b(Meta("", "1.0"))
          [] scenario \in {"disabled", "malformed_enabled", "configured"} ->
               skipped @@ a(MetaConf("foo", "1.0", ConfA)) @@ b(Meta("bar", "2.0"))
          [] scenario = "import_error" ->
               skipped @@ a(Meta("foo", "1.0")) @@ ("b.py" :> Broken)
          [] scenario = "mixed_module" ->
               skipped
               @@ ("a.py" :> Mod(<<Class("Foo", base, Meta("foo", "1.0")),
                                   Class("Helper", "object", EmptyDict),
                                   Class("Bar", base, Meta("foo", "2.0"))>>))
          [] scenario = "no_version" ->
               skipped @@ a([name |-> "foo"]) @@ b(Meta("foo", "1.0"))
          [] scenario = "no_versions" ->
               skipped @@ a([name |-> "foo"]) @@ b([name |-> "foo"])
          [] scenario = "disabled_twin" ->
               skipped @@ a(MetaConf("foo", "1.0", ConfA)) @@ b(Meta("foo", "1.0"))

Scenarios == {"versions", "same_identity", "same_version", "no_name", "empty_name",
              "disabled", "malformed_enabled", "configured", "import_error",
              "mixed_module", "no_version", "no_versions", "disabled_twin"}

\* The disabled twin is a distributor; the importers next to it are the two
\* versions of foo.
PluginTree(scenario) ==
    (_importer_plugins_dir :>
        PluginListing("Importer", IF scenario = "disabled_twin" THEN "versions" ELSE scenario))
    @@ (_distributor_plugins_dir :> PluginListing("Distributor", scenario))

----------------------------------------------------------------------------
(* class Manager *)

\* Manager.__init__, lines 56-65
Manager ==
    [ importer_config_paths |-> <<>>,
      importer_plugin_paths |-> EmptyDict,
      distributor_config_paths |-> <<>>,
      distributor_plugin_paths |-> EmptyDict,
      importer_configs |-> EmptyDict,
      importer_plugins |-> EmptyDict,
      distributor_configs |-> EmptyDict,
      distributor_plugins |-> EmptyDict ]

\* The outcome of a method: the manager as the call left it, the exception
\* raised ("none" when the call returned) and the value returned.
Return(m, value) == [m |-> m, err |-> "none", value |-> value]
Raise(m, exc) == [m |-> m, err |-> exc, value |-> None]

\* Manager._check_path, lines 69-78: the exception it raises, or "none"
_check_path(path) ==
    IF path \in readable THEN "none" ELSE "ValueError"

\* add_importer_config_path appending before it checks the path
add_importer_config_path_appending_first(m, path) ==
    IF _check_path(path) # "none"
    THEN Raise([m EXCEPT !.importer_config_paths = Append(@, path)], _check_path(path))
    ELSE Return([m EXCEPT !.importer_config_paths = Append(@, path)], None)

\* Manager.add_importer_config_path, lines 80-87
add_importer_config_path(m, path) ==
    IF _check_path(path) # "none"
    THEN Raise(m, _check_path(path))
    ELSE Return([m EXCEPT !.importer_config_paths = Append(@, path)], None)

\* Manager.add_importer_plugin_path, lines 89-98.  Line 98 reads
\* self.importer_paths, an attribute no Manager has (__init__ sets
\* importer_plugin_paths), so the call raises AttributeError once the
\* path check has passed.
add_importer_plugin_path(m, path, package_name) ==
    IF _check_path(path) # "none"
    THEN Raise(m, _check_path(path))
    ELSE Raise(m, "AttributeError")

\* Manager.add_distributor_config_path, lines 100-107
add_distributor_config_path(m, path) ==
    IF _check_path(path) # "none"
    THEN Raise(m, _check_path(path))
    ELSE Return([m EXCEPT !.distributor_config_paths = Append(@, path)], None)

\* Manager.add_distributor_plugin_path, lines 109-118.  Line 118 reads
\* self.distributor_paths, which no Manager has: AttributeError.
add_distributor_plugin_path(m, path, package_name) ==
    IF _check_path(path) # "none"
    THEN Raise(m, _check_path(path))
    ELSE Raise(m, "AttributeError")

----------------------------------------------------------------------------
(* Plugin discovery *)

\* files_regex = re.compile('.*\.conf$'); files_regex.match(file_name), line 131
MatchesConf(file_name) == SplitExt[file_name][2] = "conf"

\* The loop of Manager._load_configs over config_paths[i..], lines 132-139.
\* The file names of one directory are distinct, so the files of a
\* directory conflict with the ones recorded before exactly when one of
\* their names is already a key of configs.
RECURSIVE LoadConfigsFrom(_, _, _)
LoadConfigsFrom(config_paths, i, configs) ==
    IF i > Len(config_paths)
    THEN [err |-> "none", configs |-> configs]
    ELSE LET path == config_paths[i]
             files == confFiles[path]
             matching == {file_name \in DOMAIN files : MatchesConf(file_name)}
         IN  IF \E file_name \in matching : file_name \in DOMAIN configs
             THEN [err |-> "ConflictingPluginError", configs |-> EmptyDict]
             ELSE LoadConfigsFrom(config_paths, i + 1,
                      [file_name \in (DOMAIN configs) \cup matching |->
                          IF file_name \in DOMAIN configs
                          THEN configs[file_name] ELSE files[file_name]])

\* _load_configs without the check of line 135: a file name met again
\* replaces the configuration recorded for it.
_load_configs_overriding(config_paths) ==
    LET holds(i, file_name) ==
            file_name \in DOMAIN confFiles[config_paths[i]] /\ MatchesConf(file_name)
        names == {file_name \in DOMAIN SplitExt :
                    \E i \in DOMAIN config_paths : holds(i, file_name)}
        last(file_name) ==
            CHOOSE i \in DOMAIN config_paths :
                holds(i, file_name)
                /\ \A j \in DOMAIN config_paths : holds(j, file_name) => j <= i
    IN  [err |-> "none",
         configs |-> [file_name \in names |->
                         confFiles[config_paths[last(file_name)]][file_name]]]

\* Manager._load_configs, lines 122-140
_load_configs(config_paths) == LoadConfigsFrom(config_paths, 1, EmptyDict)

\* Manager._load_modules, lines 142-162.  Line 153 applies % to the compiled
\* pattern object (re.compile(...) % '|'.join(skip)), which raises TypeError
\* before any directory is listed; lines 155-162 are never reached.
_load_modules(plugin_paths) == [err |-> "TypeError", modules |-> <<>>]

\* config.getboolean(section, option) of ConfigParser
getboolean(config, section, option) ==
    LET v == config[section][option]
    IN  IF v \in {"1", "yes", "true", "on"} THEN Return(None, TRUE)
        ELSE IF v \in {"0", "no", "false", "off"} THEN Return(None, FALSE)
        ELSE Raise(None, "ValueError")

\* Manager._is_plugin_enabled, lines 164-178.  The parameter is spelled
\* pulgin_name; lines 174-178 use plugin_name, a name bound nowhere, so
\* line 174 raises NameError for every config that is not None.
_is_plugin_enabled(pulgin_name, config) ==
    IF config = None
    THEN Return(None, TRUE)
    ELSE Raise(None, "NameError")

\* dir(module), lines 188 and 220: the NAMES of the module's symbols, each a
\* str object and not the object the name is bound to.
Dir(module) ==
    [i \in DOMAIN module |-> [sym |-> module[i].sym, base |-> "str", metadata |-> EmptyDict]]

\* issubclass(attr, base), lines 189 and 221: TypeError when attr is not a class
issubclass(attr, base) ==
    IF attr.base \in {"str", "value"}
    THEN [err |-> "TypeError", value |-> FALSE]
    ELSE [err |-> "none", value |-> attr.base = base]

\* One iteration of the inner loop of load_importers, lines 189-210.
ImporterCandidate(m, configs, attr) ==
    LET sub == issubclass(attr, "Importer")
        metadata == attr.metadata
        name == DictGet(metadata, "name", NoneStr)
        version == DictGet(metadata, "version", NoneStr)
        conf_file == DictGet(metadata, "conf_file", NoneStr)
        cfg == DictGet(configs, conf_file, None)
        enabled == _is_plugin_enabled(name, cfg)
        plugin_versions == DictGet(m.importer_plugins, "name", EmptyDict)
        config_versions == DictGet(m.importer_configs, "name", EmptyDict)
        m1 == [m EXCEPT !.importer_plugins = DictSet(@, "name", plugin_versions)]
    IN  IF sub.err # "none" THEN Raise(m, sub.err)
        ELSE IF ~sub.value THEN Return(m, None)
        ELSE IF name = NoneStr THEN Raise(m, "MalformedPluginError")
        ELSE IF enabled.err # "none" THEN Raise(m, enabled.err)
        ELSE IF ~enabled.value THEN Return(m, None)
        ELSE IF version \in DOMAIN plugin_versions
             THEN Raise(m1, "ConflictingPluginError")
        ELSE Return([m EXCEPT
                       !.importer_plugins =
                           DictSet(@, "name", DictSet(plugin_versions, version, attr.sym)),
                       !.importer_configs =
                           DictSet(@, "name",
                               DictSet(config_versions, version,
                                       IF cfg = None THEN CfgEmpty ELSE cfg))],
                    None)

\* The loops of load_importers from attribute j of module i on, lines 187-210
RECURSIVE ImporterLoop(_, _, _, _, _)
ImporterLoop(m, configs, modules, i, j) ==
    IF i > Len(modules) THEN Return(m, None)
    ELSE IF j > Len(Dir(modules[i])) THEN ImporterLoop(m, configs, modules, i + 1, 1)
    ELSE LET r == ImporterCandidate(m, configs, Dir(modules[i])[j])
         IN  IF r.err # "none" THEN r
             ELSE ImporterLoop(r.m, configs, modules, i, j + 1)

\* load_importers keeping the loaded configurations in self.importer_configs
\* (line 185 assigning the attribute instead of a local).
load_importers_storing_configs(m) ==
    IF Truthy(m.importer_plugins) \/ Truthy(m.importer_configs)
    THEN Raise(m, "AssertionError")
    ELSE LET c == _load_configs(m.importer_config_paths)
             l == _load_modules(m.importer_plugin_paths)
             m1 == [m EXCEPT !.importer_configs = c.configs]
         IN  IF c.err # "none" THEN Raise(m, c.err)
             ELSE IF l.err # "none" THEN Raise(m1, l.err)
             ELSE ImporterLoop(m1, c.configs, l.modules, 1, 1)

\* Manager.load_importers, lines 180-210
load_importers(m) ==
    IF Truthy(m.importer_plugins) \/ Truthy(m.importer_configs)
    THEN Raise(m, "AssertionError")
    ELSE LET c == _load_configs(m.importer_config_paths)
             l == _load_modules(m.importer_plugin_paths)
         IN  IF c.err # "none" THEN Raise(m, c.err)
             ELSE IF l.err # "none" THEN Raise(m, l.err)
             ELSE ImporterLoop(m, c.configs, l.modules, 1, 1)

\* One iteration of the inner loop of load_distributors, lines 221-239.
DistributorCandidate(m, configs, attr) ==
    LET sub == issubclass(attr, "Distributor")
        metadata == attr.metadata
        name == DictGet(metadata, "name", NoneStr)
        version == DictGet(metadata, "version", NoneStr)
        conf_file == DictGet(metadata, "conf_file", NoneStr)
        cfg == DictGet(configs, conf_file, None)
        enabled == _is_plugin_enabled(name, cfg)
        plugin_versions == DictGet(m.distributor_plugins, "name", EmptyDict)
        config_versions == DictGet(m.distributor_configs, "name", EmptyDict)
        m1 == [m EXCEPT !.distributor_plugins = DictSet(@, "name", plugin_versions)]
    IN  IF sub.err # "none" THEN Raise(m, sub.err)
        ELSE IF ~sub.value THEN Return(m, None)
        ELSE IF name = NoneStr THEN Raise(m, "MalformedPluginError")
        ELSE IF enabled.err # "none" THEN Raise(m, enabled.err)
        ELSE IF ~enabled.value THEN Return(m, None)
        ELSE IF version \in DOMAIN plugin_versions
             THEN Raise(m1, "ConflictingPluginError")
        ELSE Return([m EXCEPT
                       !.distributor_plugins =
                           DictSet(@, "name", DictSet(plugin_versions, version, attr.sym)),
                       !.distributor_configs =
                           DictSet(@, "name",
                               DictSet(config_versions, version,
                                       IF cfg = None THEN CfgEmpty ELSE cfg))],
                    None)

\* The loops of load_distributors from attribute j of module i on, lines 219-239
RECURSIVE DistributorLoop(_, _, _, _, _)
DistributorLoop(m, configs, modules, i, j) ==
    IF i > Len(modules) THEN Return(m, None)
    ELSE IF j > Len(Dir(modules[i])) THEN DistributorLoop(m, configs, modules, i + 1, 1)
    ELSE LET r == DistributorCandidate(m, configs, Dir(modules[i])[j])
         IN  IF r.err # "none" THEN r
             ELSE DistributorLoop(r.m, configs, modules, i, j + 1)

\* load_distributors with lines 217 and 218 exchanged: the modules are loaded
\* before the configurations.
load_distributors_modules_first(m) ==
    IF Truthy(m.distributor_plugins) \/ Truthy(m.distributor_configs)
    THEN Raise(m, "AssertionError")
    ELSE LET c == _load_configs(m.distributor_config_paths)
             l == _load_modules(m.distributor_plugin_paths)
         IN  IF l.err # "none" THEN Raise(m, l.err)
             ELSE IF c.err # "none" THEN Raise(m, c.err)
             ELSE DistributorLoop(m, c.configs, l.modules, 1, 1)

\* Manager.load_distributors, lines 212-239
load_distributors(m) ==
    IF Truthy(m.distributor_plugins) \/ Truthy(m.distributor_configs)
    THEN Raise(m, "AssertionError")
    ELSE LET c == _load_configs(m.distributor_config_paths)
             l == _load_modules(m.distributor_plugin_paths)
         IN  IF c.err # "none" THEN Raise(m, c.err)
             ELSE IF l.err # "none" THEN Raise(m, l.err)
             ELSE DistributorLoop(m, c.configs, l.modules, 1, 1)

----------------------------------------------------------------------------
(* Importer/distributor lookup api and query api, lines 241-264.  The body
   of each of these methods is `pass`: it reads nothing and returns None. *)

\* the version argument of a call that passes none
Omitted == "<omitted>"

\* Manager._get_latest_version, lines 243-244
_get_latest_version(versions) == Return(None, None)

\* get_importer_class creating the name's slot as it reads it
\* (self.importer_plugins.setdefault(name, {}) in place of a read)
get_importer_class_caching(m, name, version) ==
    Return([m EXCEPT !.importer_plugins =
                         DictSet(@, name, DictGet(m.importer_plugins, name, EmptyDict))],
           None)

\* Manager.get_importer_class, lines 246-247 (version=None)
get_importer_class(m, name, version) ==
    LET v == IF version = Omitted THEN NoneStr ELSE version
    IN  Return(m, None)

\* Manager.get_importer_config, lines 249-250 (version=None)
get_importer_config(m, name, version) ==
    LET v == IF version = Omitted THEN NoneStr ELSE version
    IN  Return(m, None)

\* Manager.get_distributor_class, lines 252-253 (version=None)
get_distributor_class(m, name, version) ==
    LET v == IF version = Omitted THEN NoneStr ELSE version
    IN  Return(m, None)

\* Manager.get_distributor_config, lines 255-256.  version has no default:
\* a call without it raises TypeError before the body runs.
get_distributor_config(m, name, version) ==
    IF version = Omitted THEN Raise(m, "TypeError") ELSE Return(m, None)

\* Manager.get_loaded_importers, lines 260-261
get_loaded_importers(m) == Return(m, None)

\* Manager.get_loaded_distributors, lines 263-264
get_loaded_distributors(m) == Return(m, None)

----------------------------------------------------------------------------
(* Module-level manager api, lines 268-310 *)

\* _add_paths, lines 273-279, on the manager _manager refers to.  Each call
\* is made only when the one before it returned.
_add_paths(m) ==
    IF m = None THEN Raise(m, "AttributeError")
    ELSE LET r1 == add_importer_config_path(m, _importer_configs_dir)
             r2 == add_importer_plugin_path(r1.m, _importer_plugins_dir,
                                            _importer_plugins_package)
             r3 == add_distributor_config_path(r2.m, _distributor_configs_dir)
             r4 == add_distributor_plugin_path(r3.m, _distributor_plugins_dir,
                                               _distributor_plugins_package)
         IN  IF r1.err # "none" THEN r1
             ELSE IF r2.err # "none" THEN r2
             ELSE IF r3.err # "none" THEN r3
             ELSE r4

\* _load_plugins running load_distributors whatever load_importers did
_load_plugins_continuing(m) ==
    IF m = None THEN Raise(m, "AttributeError")
    ELSE load_distributors(load_importers(m).m)

\* _load_plugins, lines 282-284
_load_plugins(m) ==
    IF m = None THEN Raise(m, "AttributeError")
    ELSE LET r1 == load_importers(m)
         IN  IF r1.err # "none" THEN r1 ELSE load_distributors(r1.m)

\* initialize without the assertion of line 295
initialize_unguarded(g) ==
    LET r1 == _add_paths(Manager)
    IN  IF r1.err # "none" THEN r1 ELSE _load_plugins(r1.m)

\* initialize, lines 287-298, started with _manager = g
initialize(g) ==
    IF g # None THEN Raise(g, "AssertionError")
    ELSE LET r1 == _add_paths(Manager)
         IN  IF r1.err # "none" THEN r1 ELSE _load_plugins(r1.m)

\* finalize without the global declaration of line 306: line 309 binds a local
finalize_keeping_reference(g) ==
    IF g = None THEN Raise(g, "AssertionError") ELSE Return(g, None)

\* finalize, lines 301-310, started with _manager = g
finalize(g) ==
    IF g = None THEN Raise(g, "AssertionError") ELSE Return(None, None)

----------------------------------------------------------------------------
(* The calls, one step each *)

NoArgs == EmptyDict

\* configuration directories registered with a manager
ConfigPathCount(m) == Len(m.importer_config_paths) + Len(m.distributor_config_paths)

\* what a call leaves in the outcome variables
Outcome(call, args, r) ==
    /\ lastCall' = call
    /\ lastArgs' = args
    /\ lastErr' = r.err
    /\ lastResult' = r.value

\* load_* calls a call made on the manager it ran on
Count(n, made) == IF made THEN n + 1 ELSE n

Initialize ==
    LET r == initialize(manager)
        paths == _add_paths(Manager)
        created == manager = None
        loaded == created /\ paths.err = "none"
    IN  /\ manager' = r.m
        /\ Outcome("initialize", NoArgs, r)
        /\ importerLoads' = IF created THEN Count(0, loaded) ELSE importerLoads
        /\ distributorLoads' =
               IF created
               THEN Count(0, loaded /\ load_importers(paths.m).err = "none")
               ELSE distributorLoads
        /\ UNCHANGED <<env, finalized>>

Finalize ==
    LET r == finalize(manager)
    IN  /\ manager' = r.m
        /\ Outcome("finalize", NoArgs, r)
        /\ importerLoads' = IF r.err = "none" THEN 0 ELSE importerLoads
        /\ distributorLoads' = IF r.err = "none" THEN 0 ELSE distributorLoads
        /\ finalized' = (finalized \/ r.err = "none")
        /\ UNCHANGED env

\* _create_manager, lines 268-270
CreateManager ==
    /\ manager' = Manager
    /\ Outcome("_create_manager", NoArgs, Return(Manager, None))
    /\ importerLoads' = 0
    /\ distributorLoads' = 0
    /\ UNCHANGED <<env, finalized>>

AddPaths ==
    LET r == _add_paths(manager)
    IN  /\ manager # None => ConfigPathCount(manager) < MaxPaths
        /\ manager' = r.m
        /\ Outcome("_add_paths", NoArgs, r)
        /\ UNCHANGED <<env, hist>>

LoadPlugins ==
    LET r == _load_plugins(manager)
    IN  /\ importerLoads + distributorLoads < MaxLoads
        /\ manager' = r.m
        /\ Outcome("_load_plugins", NoArgs, r)
        /\ importerLoads' = Count(importerLoads, manager # None)
        /\ distributorLoads' =
               Count(distributorLoads,
                     manager # None /\ load_importers(manager).err = "none")
        /\ UNCHANGED <<env, finalized>>

AddImporterConfigPath(path) ==
    LET r == add_importer_config_path(manager, path)
    IN  /\ manager # None
        /\ ConfigPathCount(manager) < MaxPaths
        /\ manager' = r.m
        /\ Outcome("add_importer_config_path", [path |-> path], r)
        /\ UNCHANGED <<env, hist>>

AddImporterPluginPath(path, package_name) ==
    LET r == add_importer_plugin_path(manager, path, package_name)
    IN  /\ manager # None
        /\ manager' = r.m
        /\ Outcome("add_importer_plugin_path",
                   [path |-> path, package_name |-> package_name], r)
        /\ UNCHANGED <<env, hist>>

AddDistributorConfigPath(path) ==
    LET r == add_distributor_config_path(manager, path)
    IN  /\ manager # None
        /\ ConfigPathCount(manager) < MaxPaths
        /\ manager' = r.m
        /\ Outcome("add_distributor_config_path", [path |-> path], r)
        /\ UNCHANGED <<env, hist>>

AddDistributorPluginPath(path, package_name) ==
    LET r == add_distributor_plugin_path(manager, path, package_name)
    IN  /\ manager # None
        /\ manager' = r.m
        /\ Outcome("add_distributor_plugin_path",
                   [path |-> path, package_name |-> package_name], r)
        /\ UNCHANGED <<env, hist>>

LoadModules(plugin_paths) ==
    LET r == _load_modules(plugin_paths)
    IN  /\ manager # None
        /\ Outcome("_load_modules", [plugin_paths |-> plugin_paths],
                   [m |-> manager, err |-> r.err,
                    value |-> IF r.err = "none" THEN [modules |-> r.modules] ELSE None])
        /\ UNCHANGED <<manager, env, hist>>

LoadImporters ==
    LET r == load_importers(manager)
    IN  /\ manager # None
        /\ importerLoads + distributorLoads < MaxLoads
        /\ manager' = r.m
        /\ Outcome("load_importers", NoArgs, r)
        /\ importerLoads' = importerLoads + 1
        /\ UNCHANGED <<env, distributorLoads, finalized>>

LoadDistributors ==
    LET r == load_distributors(manager)
    IN  /\ manager # None
        /\ importerLoads + distributorLoads < MaxLoads
        /\ manager' = r.m
        /\ Outcome("load_distributors", NoArgs, r)
        /\ distributorLoads' = distributorLoads + 1
        /\ UNCHANGED <<env, importerLoads, finalized>>

IsPluginEnabled(plugin_name, config) ==
    LET r == _is_plugin_enabled(plugin_name, config)
    IN  /\ manager # None
        /\ Outcome("_is_plugin_enabled", [plugin_name |-> plugin_name, config |-> config],
                   IF r.err = "none" THEN Return(None, [bool |-> r.value]) ELSE r)
        /\ UNCHANGED <<env, manager, hist>>

GetLatestVersion(versions) ==
    /\ manager # None
    /\ Outcome("_get_latest_version", [versions |-> versions], _get_latest_version(versions))
    /\ UNCHANGED <<env, manager, hist>>

\* a lookup call: it leaves the manager as the method left it
Lookup(call, name, version, r) ==
    /\ manager # None
    /\ manager' = r.m
    /\ Outcome(call, [name |-> name, version |-> version], r)
    /\ UNCHANGED <<env, hist>>

GetImporterClass(name, version) ==
    Lookup("get_importer_class", name, version, get_importer_class(manager, name, version))

GetImporterConfig(name, version) ==
    Lookup("get_importer_config", name, version, get_importer_config(manager, name, version))

GetDistributorClass(name, version) ==
    Lookup("get_distributor_class", name, version,
           get_distributor_class(manager, name, version))

GetDistributorConfig(name, version) ==
    Lookup("get_distributor_config", name, version,
           get_distributor_config(manager, name, version))

GetLoadedImporters ==
    LET r == get_loaded_importers(manager)
    IN  /\ manager # None
        /\ manager' = r.m
        /\ Outcome("get_loaded_importers", NoArgs, r)
        /\ UNCHANGED <<env, hist>>

GetLoadedDistributors ==
    LET r == get_loaded_distributors(manager)
    IN  /\ manager # None
        /\ manager' = r.m
        /\ Outcome("get_loaded_distributors", NoArgs, r)
        /\ UNCHANGED <<env, hist>>

PluginNames == {"foo"}

\* version arguments of the lookups
LookupVersions == {Omitted, "1.0"}

\* versions arguments of _get_latest_version
VersionSets == {{"1.2", "1.10"}, {"1.2", "1.10", "2.0"}}

\* The file systems the manager is started on: no or one directory
\* unreadable or all of them, every contents of the configuration
\* directories, and every plugin scenario, each varied with the other two at
\* their usual value.  The "malformed_enabled" scenario comes with the
\* configuration file that holds the malformed value.
\* plugin_paths arguments of _load_modules: directory -> package name
PluginPathMaps == {(_importer_plugins_dir :> _importer_plugins_package)}

Environments ==
    LET usual == [path \in ConfigDirs |-> (ConfA :> CfgFalse) @@ (Notes :> CfgEmpty)]
        malformed == [path \in ConfigDirs |-> (ConfA :> CfgBad)]
        enabling == [path \in ConfigDirs |-> (ConfA :> CfgTrue)]
    IN  {[readable |-> r, confFiles |-> usual, pluginFiles |-> PluginTree("versions")] :
            r \in {Paths, {}} \cup {Paths \ {path} : path \in Paths}}
        \cup {[readable |-> Paths, confFiles |-> c, pluginFiles |-> PluginTree("versions")] :
                c \in [ConfigDirs -> ConfListings]}
        \cup {[readable |-> Paths,
               confFiles |-> CASE scenario = "malformed_enabled" -> malformed
                               [] scenario = "configured" -> enabling
                               [] OTHER -> usual,
               pluginFiles |-> PluginTree(scenario)] :
                scenario \in Scenarios}

Init ==
    /\ \E e \in Environments :
           /\ readable = e.readable
           /\ confFiles = e.confFiles
           /\ pluginFiles = e.pluginFiles
    /\ manager = None
    /\ lastCall = "start"
    /\ lastArgs = NoArgs
    /\ lastErr = "none"
    /\ lastResult = None
    /\ importerLoads = 0
    /\ distributorLoads = 0
    /\ finalized = FALSE
    /\ repos = {}
    /\ schedules = EmptyDict

Next ==
    \/ Initialize
    \/ Finalize
    \/ CreateManager
    \/ AddPaths
    \/ LoadPlugins
    \/ \E path \in ConfigDirs : AddImporterConfigPath(path)
    \/ \E path \in PluginDirs, package_name \in Packages \ {_distributor_plugins_package} :
           AddImporterPluginPath(path, package_name)
    \/ \E path \in {_distributor_configs_dir} : AddDistributorConfigPath(path)
    \/ \E path \in PluginDirs, package_name \in Packages \ {_importer_plugins_package} :
           AddDistributorPluginPath(path, package_name)
    \/ \E plugin_paths \in PluginPathMaps : LoadModules(plugin_paths)
    \/ LoadImporters
    \/ LoadDistributors
    \/ \E plugin_name \in PluginNames, config \in CfgValues \cup {None} :
           IsPluginEnabled(plugin_name, config)
    \/ \E versions \in VersionSets : GetLatestVersion(versions)
    \/ \E name \in PluginNames, version \in LookupVersions : GetImporterClass(name, version)
    \/ \E name \in PluginNames, version \in LookupVersions : GetImporterConfig(name, version)
    \/ \E name \in PluginNames, version \in LookupVersions : GetDistributorClass(name, version)
    \/ \E name \in PluginNames, version \in LookupVersions : GetDistributorConfig(name, version)
    \/ GetLoadedImporters
    \/ GetLoadedDistributors

Spec == Init /\ [][Next]_vars

----------------------------------------------------------------------------
(* What the file system holds, read independently of the manager *)

\* the plugin classes defined by the source files of a plugin directory
Classes(dir) ==
    {c \in UNION {{pluginFiles[dir][f][i] : i \in DOMAIN pluginFiles[dir][f]} :
                      f \in DOMAIN pluginFiles[dir]} :
        c.base \in {"Importer", "Distributor"}}

PluginName(c) == DictGet(c.metadata, "name", NoneStr)
PluginVersion(c) == DictGet(c.metadata, "version", NoneStr)

\* two classes of the directory declare the same (name, version)
SameIdentity(dir) ==
    \E c1, c2 \in Classes(dir) :
        c1 # c2 /\ PluginName(c1) = PluginName(c2) /\ PluginVersion(c1) = PluginVersion(c2)

\* two classes of the directory declare different names and the same version
SameVersion(dir) ==
    \E c1, c2 \in Classes(dir) :
        PluginName(c1) # PluginName(c2) /\ PluginVersion(c1) = PluginVersion(c2)

\* a class of the directory has no name or the empty name
Nameless(dir) == \E c \in Classes(dir) : PluginName(c) \in {NoneStr, ""}

\* (name, version) is registered in a registry: name -> version -> entry
Registered(registry, name, version) ==
    name \in DOMAIN registry /\ version \in DOMAIN registry[name]

\* the four registry dicts of a manager
Registries(m) ==
    IF m = None
    THEN <<EmptyDict, EmptyDict, EmptyDict, EmptyDict>>
    ELSE <<m.importer_plugins, m.importer_configs,
           m.distributor_plugins, m.distributor_configs>>

\* initialize() got past its guard and every convention directory is readable,
\* so the importer pass is the first step that can fail
ImporterPassRan ==
    /\ lastCall = "initialize"
    /\ lastErr # "AssertionError"
    /\ readable = Paths

----------------------------------------------------------------------------
(* Claims *)

\* C1: a discovery pass over two plugin classes that declare the same
\* (name, version) raises ConflictingPluginError.
C1_ConflictAlwaysRaised ==
    (ImporterPassRan
        /\ SameIdentity(_importer_plugins_dir)
        /\ ~Nameless(_importer_plugins_dir))
    => lastErr = "ConflictingPluginError"

\* C2: two enabled plugins with different names and the same version are
\* both registered, each under its own name, and no error is raised.
C2_KeyedByOwnName ==
    (ImporterPassRan
        /\ SameVersion(_importer_plugins_dir)
        /\ ~SameIdentity(_importer_plugins_dir)
        /\ ~Nameless(_importer_plugins_dir))
    => /\ lastErr = "none"
       /\ \A c \in Classes(_importer_plugins_dir) :
              Registered(manager.importer_plugins, PluginName(c), PluginVersion(c))

C4_NamelessIsMalformed ==
    (ImporterPassRan /\ Nameless(_importer_plugins_dir))
    => lastErr = "MalformedPluginError"

\* C5: initialize() with a manager in place, and finalize() with none, raise
\* (the assertions of lines 295 and 307) and leave _manager as it was.
C5_GuardedLifecycle ==
    [][ /\ (manager # None /\ lastCall' = "initialize")
            => (lastErr' = "AssertionError" /\ manager' = manager)
        /\ (manager = None /\ lastCall' = "finalize")
            => (lastErr' = "AssertionError" /\ manager' = None) ]_vars

\* C5 witness: initialize() was refused because a manager exists
C5_Witness ==
    /\ lastCall = "initialize"
    /\ lastErr = "AssertionError"
    /\ manager # None

\* a manager initialize() built from scratch: empty registries, and no
\* directory registered but the convention ones
FreshlyInitialized(m) ==
    /\ Registries(m) = Registries(None)
    /\ m.importer_config_paths \in {<<>>, <<_importer_configs_dir>>}
    /\ m.distributor_config_paths \in {<<>>, <<_distributor_configs_dir>>}

\* C6: a finalize() that returns releases _manager, and an initialize() after
\* it passes the guard and works on a new manager with empty registries.
C6_FinalizeReleases ==
    [][ /\ (lastCall' = "finalize" /\ lastErr' = "none") => manager' = None
        /\ (finalized /\ manager = None /\ lastCall' = "initialize")
            => /\ lastErr' # "AssertionError"
               /\ manager' # None
               /\ FreshlyInitialized(manager') ]_vars

\* C6 witness: initialize() passed its guard after a finalize()
C6_Witness ==
    /\ finalized
    /\ lastCall = "initialize"
    /\ lastErr # "AssertionError"
    /\ manager # None

\* C7: the second call of a loader on one manager fails its precondition.
C7_SecondLoadRejected ==
    /\ (lastCall = "load_importers" /\ importerLoads >= 2) => lastErr = "AssertionError"
    /\ (lastCall = "load_distributors" /\ distributorLoads >= 2) => lastErr = "AssertionError"

\* C8: after an initialize() that failed past its guard, _manager refers to
\* no manager.
C8_NothingPublishedOnFailure ==
    (lastCall = "initialize" /\ lastErr \notin {"none", "AssertionError"})
    => manager = None

\* the same configuration file name occurs in two different directories of the list
DuplicateConfig(config_paths) ==
    \E i, j \in DOMAIN config_paths :
        /\ i < j
        /\ config_paths[i] # config_paths[j]
        /\ \E file_name \in DOMAIN confFiles[config_paths[i]] :
               /\ MatchesConf(file_name)
               /\ file_name \in DOMAIN confFiles[config_paths[j]]

\* the duplicated files have the same contents
IdenticalDuplicate(config_paths) ==
    \E i, j \in DOMAIN config_paths :
        /\ i < j
        /\ config_paths[i] # config_paths[j]
        /\ \E file_name \in DOMAIN confFiles[config_paths[i]] :
               /\ MatchesConf(file_name)
               /\ file_name \in DOMAIN confFiles[config_paths[j]]
               /\ confFiles[config_paths[i]][file_name] = confFiles[config_paths[j]][file_name]

\* C9: loading the configurations of directories that hold the same file
\* name twice raises ConflictingPluginError, and a load that returns holds
\* for each file name the contents of the one file of that name.
C9_DuplicateConfigRejected ==
    manager # None =>
        /\ \A config_paths \in {manager.importer_config_paths,
                                manager.distributor_config_paths} :
              LET r == _load_configs(config_paths)
              IN  /\ DuplicateConfig(config_paths) => r.err = "ConflictingPluginError"
                  /\ r.err = "none" =>
                        \A i \in DOMAIN config_paths :
                            \A file_name \in DOMAIN confFiles[config_paths[i]] :
                                MatchesConf(file_name) =>
                                    /\ file_name \in DOMAIN r.configs
                                    /\ r.configs[file_name] =
                                           confFiles[config_paths[i]][file_name]
        /\ (lastCall = "load_importers" /\ DuplicateConfig(manager.importer_config_paths))
              => lastErr = "ConflictingPluginError"
        /\ (lastCall = "load_distributors" /\ DuplicateConfig(manager.distributor_config_paths))
              => lastErr = "ConflictingPluginError"

\* C9 witness: load_importers met one file name, with the same contents, in
\* two directories and raised
C9_Witness ==
    /\ lastCall = "load_importers"
    /\ lastErr = "ConflictingPluginError"
    /\ IdenticalDuplicate(manager.importer_config_paths)

\* the words ConfigParser.getboolean accepts
BooleanWords == {"1", "yes", "true", "on", "0", "no", "false", "off"}

\* the configuration is absent, or says nothing about the plugin's enabled
\* key, or gives it a well-formed boolean
WellFormedEnabled(plugin_name, config) ==
    \/ config = None
    \/ plugin_name \notin DOMAIN config
    \/ "enabled" \notin DOMAIN config[plugin_name]
    \/ config[plugin_name]["enabled"] \in BooleanWords

\* the answer the enablement rule gives
EnabledByRule(plugin_name, config) ==
    IF config = None THEN TRUE
    ELSE IF plugin_name \notin DOMAIN config THEN TRUE
    ELSE IF "enabled" \notin DOMAIN config[plugin_name] THEN TRUE
    ELSE config[plugin_name]["enabled"] \in {"1", "yes", "true", "on"}

\* C10: _is_plugin_enabled returns True for an absent configuration, a
\* configuration without the plugin's section and a section without the
\* enabled key, and the boolean value of the key otherwise.
C10_EnabledByDefault ==
    (lastCall = "_is_plugin_enabled"
        /\ WellFormedEnabled(lastArgs.plugin_name, lastArgs.config))
    => /\ lastErr = "none"
       /\ lastResult = [bool |-> EnabledByRule(lastArgs.plugin_name, lastArgs.config)]

----------------------------------------------------------------------------
(* Claims about enablement and lookup *)

LookupCalls == {"get_importer_class", "get_importer_config",
                "get_distributor_class", "get_distributor_config"}

\* the directories a call works on: <<plugin directory, configuration directory>>
DirsOf(call) ==
    IF call \in {"get_importer_class", "get_importer_config", "get_loaded_importers"}
    THEN <<_importer_plugins_dir, _importer_configs_dir>>
    ELSE <<_distributor_plugins_dir, _distributor_configs_dir>>

\* the configuration a class on disk is matched with: the file its conf_file
\* names in the configuration directory, None when there is none
ConfigOf(c, cdir) ==
    LET conf_file == DictGet(c.metadata, "conf_file", NoneStr)
    IN  IF conf_file \in DOMAIN confFiles[cdir] THEN confFiles[cdir][conf_file] ELSE None

\* the configuration of the class sets enabled to a false word
DisabledClass(c, cdir) ==
    /\ WellFormedEnabled(PluginName(c), ConfigOf(c, cdir))
    /\ ~EnabledByRule(PluginName(c), ConfigOf(c, cdir))

\* classes of that name exist in the plugin directory and all are disabled
DisabledOnDisk(pdir, cdir, name) ==
    /\ \E c \in Classes(pdir) : PluginName(c) = name
    /\ \A c \in Classes(pdir) : PluginName(c) = name => DisabledClass(c, cdir)

\* C11: a plugin that its configuration disables is absent from lookup: every
\* lookup of its name raises PluginNotFoundError and the loaded-plugin query
\* returns pairs that do not name it.
C11_DisabledIsNotFound ==
    /\ (lastCall \in LookupCalls
            /\ DisabledOnDisk(DirsOf(lastCall)[1], DirsOf(lastCall)[2], lastArgs.name))
        => lastErr = "PluginNotFoundError"
    /\ (lastCall \in {"get_loaded_importers", "get_loaded_distributors"}
            /\ DisabledOnDisk(DirsOf(lastCall)[1], DirsOf(lastCall)[2], "foo"))
        => /\ lastErr = "none"
           /\ "pairs" \in DOMAIN lastResult
           /\ \A pair \in lastResult.pairs : pair[1] # "foo"

\* a class of the directory has a malformed enabled value in its configuration
MalformedOnDisk(pdir, cdir) ==
    \E c \in Classes(pdir) : ~WellFormedEnabled(PluginName(c), ConfigOf(c, cdir))

\* C12: an enabled value that is not a boolean makes the enablement check,
\* and the discovery pass that runs it, fail with ConfigError.
C12_MalformedEnabledIsConfigError ==
    /\ (lastCall = "_is_plugin_enabled"
            /\ ~WellFormedEnabled(lastArgs.plugin_name, lastArgs.config))
        => lastErr = "ConfigError"
    /\ (ImporterPassRan
            /\ ~Nameless(_importer_plugins_dir)
            /\ MalformedOnDisk(_importer_plugins_dir, _importer_configs_dir))
        => lastErr = "ConfigError"

\* version.split('.') with the components read as numbers
Components ==
    ("1.0" :> <<1, 0>>) @@ ("1.2" :> <<1, 2>>) @@ ("1.10" :> <<1, 10>>)
    @@ ("2.0" :> <<2, 0>>)

\* a comes before b in the dotted-numeric order
DottedLess(a, b) ==
    LET x == Components[a]
        y == Components[b]
    IN  \E i \in 1..Len(x) :
            /\ i <= Len(y)
            /\ \A j \in 1..(i - 1) : x[j] = y[j]
            /\ x[i] < y[i]

\* the greatest of the versions in the dotted-numeric order
DottedMax(versions) ==
    CHOOSE v \in versions : \A w \in versions : w = v \/ DottedLess(w, v)

\* C13: the latest of a set of versions is its maximum in the dotted-numeric
\* order: "1.10" for {"1.2", "1.10"} and "2.0" for {"1.2", "1.10", "2.0"}.
C13_LatestIsNumericMax ==
    lastCall = "_get_latest_version"
    => /\ lastErr = "none"
       /\ lastResult = [version |-> DottedMax(lastArgs.versions)]

\* C14: the latest version is the greatest of the versions under a total
\* order, so resolving it yields one of the versions it was given.
C14_LatestIsOneOfTheVersions ==
    (lastCall = "_get_latest_version" /\ lastArgs.versions # {})
    => \E v \in lastArgs.versions : lastResult = [version |-> v]

\* the registry a lookup call reads
RegistryOf(call, m) ==
    CASE call = "get_importer_class" -> m.importer_plugins
      [] call = "get_importer_config" -> m.importer_configs
      [] call = "get_distributor_class" -> m.distributor_plugins
      [] call = "get_distributor_config" -> m.distributor_configs

\* C15: a lookup of a name that is not registered, or of a version that is
\* not registered under the name, raises PluginNotFoundError.
C15_UnknownIsNotFound ==
    (lastCall \in LookupCalls
        /\ \/ lastArgs.name \notin DOMAIN RegistryOf(lastCall, manager)
           \/ /\ lastArgs.version # Omitted
              /\ ~Registered(RegistryOf(lastCall, manager), lastArgs.name, lastArgs.version))
    => lastErr = "PluginNotFoundError"

\* every class of the directory is well formed and no two share an identity
HealthyTree(pdir, cdir) ==
    /\ ~SameIdentity(pdir)
    /\ ~Nameless(pdir)
    /\ ~MalformedOnDisk(pdir, cdir)

\* what a lookup of (name, version) has to return once the pass over the
\* call's directories has registered class c
EntryOf(call, c) ==
    IF call \in {"get_importer_class", "get_distributor_class"}
    THEN [class |-> c.sym]
    ELSE [config |-> IF ConfigOf(c, DirsOf(call)[2]) = None
                     THEN CfgEmpty ELSE ConfigOf(c, DirsOf(call)[2])]

\* C16: after initialize() has run the passes over healthy directories, a
\* lookup of the (name, version) of an enabled class returns that class, or
\* the configuration registered with it.
C16_LookupReturnsRegistered ==
    [][ \A c \in Classes(_importer_plugins_dir) \cup Classes(_distributor_plugins_dir) :
          (/\ ImporterPassRan
           /\ lastCall' \in LookupCalls
           /\ c \in Classes(DirsOf(lastCall')[1])
           /\ HealthyTree(DirsOf(lastCall')[1], DirsOf(lastCall')[2])
           /\ ~DisabledClass(c, DirsOf(lastCall')[2])
           /\ lastArgs'.name = PluginName(c)
           /\ lastArgs'.version = PluginVersion(c))
          => /\ lastErr' = "none"
             /\ lastResult' = EntryOf(lastCall', c) ]_vars

\* C17: every lookup may be called without a version.
C17_VersionMayBeOmitted ==
    (lastCall \in LookupCalls /\ lastArgs.version = Omitted) => lastErr # "TypeError"

\* the (name, version) pairs of a registry
Pairs(registry) ==
    UNION {{<<name, version>> : version \in DOMAIN registry[name]} : name \in DOMAIN registry}

\* C18: the loaded-plugin queries return the (name, version) pairs of the
\* registry they belong to.
C18_LoadedIsTheRegistry ==
    /\ lastCall = "get_loaded_importers"
        => (lastErr = "none" /\ lastResult = [pairs |-> Pairs(manager.importer_plugins)])
    /\ lastCall = "get_loaded_distributors"
        => (lastErr = "none" /\ lastResult = [pairs |-> Pairs(manager.distributor_plugins)])

----------------------------------------------------------------------------
(* Claims about path registration *)

AddPathCalls == {"add_importer_config_path", "add_importer_plugin_path",
                 "add_distributor_config_path", "add_distributor_plugin_path"}

\* C19 as stated: registering a directory that is missing or unreadable
\* raises PathError.
C19_BadPathIsPathError ==
    (lastCall \in AddPathCalls /\ lastArgs.path \notin readable) => lastErr = "PathError"

\* C19 amended: registering a directory that is missing or unreadable raises
\* ValueError and leaves the manager unchanged, and an initialize() that
\* meets such a directory raises before any load_* call is made.
C19_BadPathRejected ==
    [][ /\ (lastCall' \in AddPathCalls /\ lastArgs'.path \notin readable)
            => (lastErr' = "ValueError" /\ manager' = manager)
        /\ (manager = None /\ lastCall' = "initialize" /\ readable # Paths)
            => /\ lastErr' # "none"
               /\ importerLoads' = 0
               /\ distributorLoads' = 0
               /\ Registries(manager') = Registries(None) ]_vars

\* C19 witness: a registration was refused on a manager that holds a path
C19_Witness ==
    /\ lastCall = "add_importer_config_path"
    /\ lastArgs.path \notin readable
    /\ lastErr = "ValueError"
    /\ manager.importer_config_paths = <<_importer_configs_dir>>

\* C20: registering a readable directory returns and records it: a
\* configuration directory at the end of the list, a plugin directory in the
\* mapping under its package name, '' when none is given.
C20_GoodPathRecorded ==
    (lastCall \in AddPathCalls /\ lastArgs.path \in readable)
    => /\ lastErr = "none"
       /\ lastCall = "add_importer_config_path" =>
              /\ manager.importer_config_paths # <<>>
              /\ manager.importer_config_paths[Len(manager.importer_config_paths)]
                     = lastArgs.path
       /\ lastCall = "add_distributor_config_path" =>
              /\ manager.distributor_config_paths # <<>>
              /\ manager.distributor_config_paths[Len(manager.distributor_config_paths)]
                     = lastArgs.path
       /\ lastCall = "add_importer_plugin_path" =>
              /\ lastArgs.path \in DOMAIN manager.importer_plugin_paths
              /\ manager.importer_plugin_paths[lastArgs.path]
                     = (IF lastArgs.package_name = NoneStr THEN "" ELSE lastArgs.package_name)
       /\ lastCall = "add_distributor_plugin_path" =>
              /\ lastArgs.path \in DOMAIN manager.distributor_plugin_paths
              /\ manager.distributor_plugin_paths[lastArgs.path]
                     = (IF lastArgs.package_name = NoneStr THEN "" ELSE lastArgs.package_name)

----------------------------------------------------------------------------
(* Claims about the discovery pipeline *)

\* the importer registries and the distributor registries of a manager
ImporterRegistries(m) == <<Registries(m)[1], Registries(m)[2]>>
DistributorRegistries(m) == <<Registries(m)[3], Registries(m)[4]>>

\* an importer class and a distributor class declare the same (name, version)
SharedIdentities ==
    {<<PluginName(c), PluginVersion(c)>> : c \in Classes(_importer_plugins_dir)}
    \cap {<<PluginName(c), PluginVersion(c)>> : c \in Classes(_distributor_plugins_dir)}

\* C21: load_importers() leaves the distributor registry alone and
\* load_distributors() the importer registry, and initialize() over healthy
\* directories registers an importer and a distributor that declare the same
\* (name, version) both, without a conflict.
C21_IndependentRegistries ==
    [][ /\ lastCall' = "load_importers"
            => DistributorRegistries(manager') = DistributorRegistries(manager)
        /\ lastCall' = "load_distributors"
            => ImporterRegistries(manager') = ImporterRegistries(manager)
        /\ (/\ manager = None
            /\ lastCall' = "initialize"
            /\ readable = Paths
            /\ HealthyTree(_importer_plugins_dir, _importer_configs_dir)
            /\ HealthyTree(_distributor_plugins_dir, _distributor_configs_dir)
            /\ SharedIdentities # {})
            => /\ lastErr' = "none"
               /\ manager' # None
               /\ \E id \in SharedIdentities :
                      /\ Registered(manager'.importer_plugins, id[1], id[2])
                      /\ Registered(manager'.distributor_plugins, id[1], id[2]) ]_vars

QueryCalls == LookupCalls \cup {"get_loaded_importers", "get_loaded_distributors"}

\* C22: a lookup or a query, whether it returns or raises, leaves the
\* manager (registries and path lists) and the _manager reference as they were.
C22_LookupsArePureReads ==
    [][ lastCall' \in QueryCalls => manager' = manager ]_vars

\* C22 witness: a lookup raised on a manager that holds a registered path
C22_Witness ==
    /\ lastCall = "get_distributor_config"
    /\ lastErr = "TypeError"
    /\ manager # None
    /\ manager.importer_config_paths # <<>>

\* the base names _load_modules skips by default, line 152
SkippedModules == {"__init__", "base"}

\* the source files of a plugin directory that are not skipped
SourceFiles(dir) ==
    {file_name \in DOMAIN pluginFiles[dir] :
        /\ SplitExt[file_name][2] = "py"
        /\ SplitExt[file_name][1] \notin SkippedModules}

\* the import of a source file of the directory raises
ImportRaises(dir) == \E file_name \in SourceFiles(dir) : pluginFiles[dir][file_name] = Broken

\* C23: a pass, or a direct _load_modules call, over a directory with a
\* source file whose import raises fails with ModuleLoadError and registers
\* nothing.
C23_ImportFailureIsModuleLoadError ==
    /\ (ImporterPassRan /\ ImportRaises(_importer_plugins_dir))
        => (lastErr = "ModuleLoadError" /\ Registries(manager) = Registries(None))
    /\ (lastCall = "_load_modules"
            /\ \E dir \in DOMAIN lastArgs.plugin_paths : ImportRaises(dir))
        => lastErr = "ModuleLoadError"

\* C24: _load_modules over directories whose files all import returns one
\* module per source file that is not skipped, and no other module.
C24_OneModulePerSourceFile ==
    (lastCall = "_load_modules"
        /\ \A dir \in DOMAIN lastArgs.plugin_paths : ~ImportRaises(dir))
    => /\ lastErr = "none"
       /\ "modules" \in DOMAIN lastResult
       /\ LET expected == UNION {{<<dir, file_name>> : file_name \in SourceFiles(dir)} :
                                    dir \in DOMAIN lastArgs.plugin_paths}
          IN  /\ Len(lastResult.modules) = Cardinality(expected)
              /\ \A e \in expected :
                     \E i \in DOMAIN lastResult.modules :
                         lastResult.modules[i] = pluginFiles[e[1]][e[2]]

\* the classes a registry holds
RegisteredClasses(registry) ==
    UNION {{registry[name][version] : version \in DOMAIN registry[name]} :
              name \in DOMAIN registry}

\* the top-level symbols of the directory's modules that implement the contract
\* and are not disabled
Conforming(pdir, cdir, base) ==
    {c \in Classes(pdir) : c.base = base /\ ~DisabledClass(c, cdir)}

\* C25: after initialize() over healthy directories the importer registry
\* holds exactly the classes of the importer modules that implement Importer
\* and the distributor registry those that implement Distributor; values and
\* unrelated classes raise no error.
C25_ExactlyConformingClasses ==
    (ImporterPassRan
        /\ ~ImportRaises(_importer_plugins_dir)
        /\ ~ImportRaises(_distributor_plugins_dir)
        /\ HealthyTree(_importer_plugins_dir, _importer_configs_dir)
        /\ HealthyTree(_distributor_plugins_dir, _distributor_configs_dir))
    => /\ lastErr = "none"
       /\ RegisteredClasses(manager.importer_plugins)
              = {c.sym : c \in Conforming(_importer_plugins_dir,
                                          _importer_configs_dir, "Importer")}
       /\ RegisteredClasses(manager.distributor_plugins)
              = {c.sym : c \in Conforming(_distributor_plugins_dir,
                                          _distributor_configs_dir, "Distributor")}

\* a class of the directory declares no version
Versionless(dir) == {c \in Classes(dir) : "version" \notin DOMAIN c.metadata}

\* C26: a pass over a directory with one plugin without a version registers
\* it under the None version next to the explicit versions of its name, and a
\* pass over two plugins of one name without a version raises
\* ConflictingPluginError.
C26_ImplicitVersionSlot ==
    /\ (ImporterPassRan
            /\ Versionless(_importer_plugins_dir) # {}
            /\ HealthyTree(_importer_plugins_dir, _importer_configs_dir))
        => /\ lastErr = "none"
           /\ \A c \in Classes(_importer_plugins_dir) :
                  /\ Registered(manager.importer_plugins, PluginName(c), PluginVersion(c))
                  /\ manager.importer_plugins[PluginName(c)][PluginVersion(c)] = c.sym
    /\ (ImporterPassRan
            /\ \E c1, c2 \in Versionless(_importer_plugins_dir) :
                   c1 # c2 /\ PluginName(c1) = PluginName(c2))
        => lastErr = "ConflictingPluginError"

\* C27: after a pass over healthy directories every enabled class has a
\* configuration registered: the parsed file its conf_file names when the
\* configuration directory holds it, the empty configuration otherwise.
C27_ConfigIsMatchedFileOrEmpty ==
    (ImporterPassRan
        /\ ~ImportRaises(_importer_plugins_dir)
        /\ HealthyTree(_importer_plugins_dir, _importer_configs_dir))
    => /\ lastErr = "none"
       /\ \A c \in Conforming(_importer_plugins_dir, _importer_configs_dir, "Importer") :
              /\ Registered(manager.importer_configs, PluginName(c), PluginVersion(c))
              /\ manager.importer_configs[PluginName(c)][PluginVersion(c)]
                     = (IF ConfigOf(c, _importer_configs_dir) = None
                        THEN CfgEmpty ELSE ConfigOf(c, _importer_configs_dir))

\* a configuration file name is met twice while the directories of
\* the list are read in order (a directory registered twice is read twice)
ConfigMetTwice(config_paths) ==
    \E i, j \in DOMAIN config_paths :
        /\ i < j
        /\ \E file_name \in DOMAIN confFiles[config_paths[i]] :
               /\ MatchesConf(file_name)
               /\ file_name \in DOMAIN confFiles[config_paths[j]]

AllPathsAccepted(m) ==
    /\ m.importer_config_paths = <<_importer_configs_dir>>
    /\ _importer_plugins_dir \in DOMAIN m.importer_plugin_paths
    /\ m.distributor_config_paths = <<_distributor_configs_dir>>
    /\ _distributor_plugins_dir \in DOMAIN m.distributor_plugin_paths

DisabledTwin(pdir, cdir) ==
    /\ \E c1, c2 \in Classes(pdir) :
           /\ DisabledClass(c1, cdir)
           /\ ~DisabledClass(c2, cdir)
           /\ PluginName(c1) = PluginName(c2)
           /\ PluginVersion(c1) = PluginVersion(c2)
    /\ \A c1, c2 \in Conforming(pdir, cdir, "Distributor") :
           (PluginName(c1) = PluginName(c2) /\ PluginVersion(c1) = PluginVersion(c2))
           => c1 = c2
    /\ ~Nameless(pdir)
    /\ ~MalformedOnDisk(pdir, cdir)

\* C31: initialize() over a distributor directory where a disabled class and
\* an enabled class declare the same (name, version) returns without a
\* ConflictingPluginError and registers the enabled class.
C31_DisabledNeverConflicts ==
    (ImporterPassRan
        /\ HealthyTree(_importer_plugins_dir, _importer_configs_dir)
        /\ DisabledTwin(_distributor_plugins_dir, _distributor_configs_dir))
    => /\ lastErr = "none"
       /\ \A c \in Conforming(_distributor_plugins_dir, _distributor_configs_dir,
                              "Distributor") :
              /\ Registered(manager.distributor_plugins, PluginName(c), PluginVersion(c))
              /\ manager.distributor_plugins[PluginName(c)][PluginVersion(c)] = c.sym

----------------------------------------------------------------------------
(* class RepoApi, src/src/pulp/api/repo.py.

   A repository is a document of the db.repos collection, with the fields
   the package group api reads and writes.  Every method fetches its own
   copy of the document (objectdb.find), changes the copy, and stores it
   with update(); a method that raises before update() stores nothing. *)

\* the manager and its file system, which the repository api leaves alone
managerSide == <<readable, confFiles, pluginFiles, manager, hist>>

\* del d[key]
DictDel(d, key) == [k \in (DOMAIN d) \ {key} |-> d[k]]

\* list.remove(x): the list without the first occurrence of x
ListRemove(list, x) ==
    LET i == CHOOSE k \in 1..Len(list) :
                 list[k] = x /\ \A j \in 1..(k - 1) : list[j] # x
    IN  SubSeq(list, 1, i - 1) \o SubSeq(list, i + 1, Len(list))

\* x in list
InList(list, x) == \E k \in 1..Len(list) : list[k] = x

\* The outcome of a RepoApi method: the collection and the installed
\* schedules as the call left them, the exception raised, the value returned.
RepoReturn(rs, sch, value) == [repos |-> rs, schedules |-> sch, err |-> "none", value |-> value]
RepoRaise(rs, sch, exc) == [repos |-> rs, schedules |-> sch, err |-> exc, value |-> None]

\* sync schedules crontab.CronItem(...).is_valid() accepts, lines 65-66
ValidSchedules == {"0 * * * *"}
\* sync_schedule arguments; NoneStr is the default sync_schedule=None
Schedules == {NoneStr, "0 * * * *", "every day"}

\* model.Repo(id, name, arch, feed) with the fields create sets, lines 89-91
Repo(id, sync_schedule) ==
    [_id |-> 0, id |-> id, sync_schedule |-> sync_schedule,
     packagegroups |-> EmptyDict, packagegroupcategories |-> EmptyDict,
     group_xml_path |-> ""]

\* model.PackageGroup, line 205, and the package groups callers pass in
PackageGroup(id, name, immutable) ==
    [id |-> id, name |-> name, immutable |-> immutable,
     mandatory_package_names |-> <<>>, optional_package_names |-> <<>>,
     default_package_names |-> <<>>]

\* model.PackageGroupCategory, line 354, and the categories callers pass in
PackageGroupCategory(id, name, immutable) ==
    [id |-> id, name |-> name, immutable |-> immutable]

\* self.insert(r), line 92: the document gets an _id no stored document has.
\* The collection is modelled without the unique index of line 54, so that
\* the look-up in create is what keeps ids apart.
insert(rs, r) ==
    rs \cup {[r EXCEPT !._id =
                 CHOOSE n \in 1..(Cardinality(rs) + 1) : \A d \in rs : d._id # n]}

\* self.objectdb.save(repo, safe=True), line 115
save(rs, repo) == {d \in rs : d._id # repo._id} \cup {repo}

\* self.objectdb.remove(repo, safe=True), line 104
remove(rs, repo) == {d \in rs : d._id # repo._id}

\* RepoApi.repositories({'id': id}), lines 124-128
repositories(rs, id) == {d \in rs : d.id = id}

\* RepoApi.repository, lines 130-137: the first match, or None
repository(rs, id) ==
    IF repositories(rs, id) = {} THEN None
    ELSE CHOOSE d \in repositories(rs, id) :
             \A e \in repositories(rs, id) : d._id <= e._id

\* RepoApi._validate_schedule, lines 59-67: the exception it raises, or "none"
_validate_schedule(sync_schedule) ==
    IF sync_schedule # NoneStr /\ sync_schedule \notin ValidSchedules
    THEN "PulpException" ELSE "none"

\* RepoApi._get_existing_repo, lines 69-77: the exception it raises, or "none"
_get_existing_repo(rs, id) ==
    IF repository(rs, id) = None THEN "PulpException" ELSE "none"

\* create without the look-up of lines 84-86
create_unchecked(rs, sch, id, sync_schedule) ==
    IF _validate_schedule(sync_schedule) # "none"
    THEN RepoRaise(rs, sch, "PulpException")
    ELSE RepoReturn(insert(rs, Repo(id, sync_schedule)),
                    IF sync_schedule # NoneStr THEN DictSet(sch, id, sync_schedule) ELSE sch,
                    Repo(id, sync_schedule))

\* RepoApi.create, lines 79-97
create(rs, sch, id, sync_schedule) ==
    IF repository(rs, id) # None THEN RepoRaise(rs, sch, "PulpException")
    ELSE IF _validate_schedule(sync_schedule) # "none"
    THEN RepoRaise(rs, sch, "PulpException")
    ELSE RepoReturn(insert(rs, Repo(id, sync_schedule)),
                    IF sync_schedule # NoneStr THEN DictSet(sch, id, sync_schedule) ELSE sch,
                    Repo(id, sync_schedule))

\* RepoApi.delete, lines 99-104
delete(rs, sch, id) ==
    IF _get_existing_repo(rs, id) # "none" THEN RepoRaise(rs, sch, "PulpException")
    ELSE RepoReturn(remove(rs, repository(rs, id)), DictDel(sch, id), None)

\* RepoApi.update, lines 106-122: repo_data is a document the caller fetched
\* and changed; every field of it replaces the stored one.
update(rs, sch, repo_data) ==
    LET repo == [repo_data EXCEPT !._id = repository(rs, repo_data.id)._id]
    IN  IF _get_existing_repo(rs, repo_data.id) # "none"
        THEN RepoRaise(rs, sch, "PulpException")
        ELSE IF _validate_schedule(repo.sync_schedule) # "none"
        THEN RepoRaise(rs, sch, "PulpException")
        ELSE RepoReturn(save(rs, repo),
                        IF repo.sync_schedule # NoneStr
                        THEN DictSet(sch, repo.id, repo.sync_schedule)
                        ELSE DictDel(sch, repo.id),
                        repo)

\* RepoApi._update_groups_metadata, lines 415-446; exists is
\* FALSE when the repomd file is missing (line 425) or a statement before
\* line 435 raises; every exception past line 421 is caught (line 445).
_update_groups_metadata(rs, sch, repoid, exists) ==
    LET repo == repository(rs, repoid)
        u == update(rs, sch, [repo EXCEPT !.group_xml_path = "comps.xml"])
    IN  IF _get_existing_repo(rs, repoid) # "none"
        THEN RepoRaise(rs, sch, "PulpException")
        ELSE IF ~exists THEN RepoReturn(rs, sch, None)
        ELSE IF repo.group_xml_path = "" /\ u.err = "none"
        THEN RepoReturn(u.repos, u.schedules, None)
        ELSE RepoReturn(rs, sch, None)

\* self.update(repo); self._update_groups_metadata(repo["id"]), the two
\* statements every package group method ends with (lines 224-225 and alike)
StoreGroups(rs, sch, repo, exists) ==
    LET u == update(rs, sch, repo)
        g == _update_groups_metadata(u.repos, u.schedules, repo.id, exists)
    IN  IF u.err # "none" THEN RepoRaise(u.repos, u.schedules, u.err)
        ELSE IF g.err # "none" THEN g
        ELSE RepoReturn(g.repos, g.schedules, None)

\* RepoApi.delete_packagegroup, lines 211-225
delete_packagegroup(rs, sch, repoid, groupid, exists) ==
    LET repo == repository(rs, repoid)
    IN  IF _get_existing_repo(rs, repoid) # "none"
        THEN RepoRaise(rs, sch, "PulpException")
        ELSE IF groupid \notin DOMAIN repo.packagegroups THEN RepoReturn(rs, sch, None)
        ELSE IF repo.packagegroups[groupid].immutable
        THEN RepoRaise(rs, sch, "PulpException")
        ELSE StoreGroups(rs, sch,
                 [repo EXCEPT !.packagegroups = DictDel(@, groupid)], exists)

\* update_packagegroup without the test of lines 236-238
update_packagegroup_unguarded(rs, sch, repoid, pg, exists) ==
    LET repo == repository(rs, repoid)
    IN  IF _get_existing_repo(rs, repoid) # "none"
        THEN RepoRaise(rs, sch, "PulpException")
        ELSE StoreGroups(rs, sch,
                 [repo EXCEPT !.packagegroups = DictSet(@, pg.id, pg)], exists)

\* RepoApi.update_packagegroup, lines 227-241
update_packagegroup(rs, sch, repoid, pg, exists) ==
    LET repo == repository(rs, repoid)
    IN  IF _get_existing_repo(rs, repoid) # "none"
        THEN RepoRaise(rs, sch, "PulpException")
        ELSE IF pg.id \in DOMAIN repo.packagegroups /\ repo.packagegroups[pg.id].immutable
        THEN RepoRaise(rs, sch, "PulpException")
        ELSE StoreGroups(rs, sch,
                 [repo EXCEPT !.packagegroups = DictSet(@, pg.id, pg)], exists)

\* The loop of update_packagegroups (lines 251-255) and of
\* update_packagegroupcategories (lines 393-397) from item i on, over the
\* dict of the fetched copy: the exception raised and the dict as changed.
RECURSIVE UpdateItems(_, _, _)
UpdateItems(dict, list, i) ==
    IF i > Len(list) THEN [err |-> "none", dict |-> dict]
    ELSE IF list[i].id \in DOMAIN dict /\ dict[list[i].id].immutable
    THEN [err |-> "PulpException", dict |-> dict]
    ELSE UpdateItems(DictSet(dict, list[i].id, list[i]), list, i + 1)

\* RepoApi.update_packagegroups, lines 243-257
update_packagegroups(rs, sch, repoid, pglist, exists) ==
    LET repo == repository(rs, repoid)
        items == UpdateItems(repo.packagegroups, pglist, 1)
    IN  IF _get_existing_repo(rs, repoid) # "none"
        THEN RepoRaise(rs, sch, "PulpException")
        ELSE IF items.err # "none" THEN RepoRaise(rs, sch, items.err)
        ELSE StoreGroups(rs, sch, [repo EXCEPT !.packagegroups = items.dict], exists)

\* the list of a group that gtype names, lines 295-305 and 326-336
ListOf(gtype) ==
    CASE gtype = "mandatory" -> "mandatory_package_names"
      [] gtype = "optional" -> "optional_package_names"
      [] OTHER -> "default_package_names"

\* RepoApi.add_package_to_group, lines 279-307
add_package_to_group(rs, sch, repoid, groupid, pkg_name, gtype, exists) ==
    LET repo == repository(rs, repoid)
        group == repo.packagegroups[groupid]
        list == group[ListOf(gtype)]
        changed == IF InList(list, pkg_name) THEN group
                   ELSE [group EXCEPT ![ListOf(gtype)] = Append(list, pkg_name)]
    IN  IF _get_existing_repo(rs, repoid) # "none"
        THEN RepoRaise(rs, sch, "PulpException")
        ELSE IF groupid \notin DOMAIN repo.packagegroups
        THEN RepoRaise(rs, sch, "PulpException")
        ELSE IF group.immutable THEN RepoRaise(rs, sch, "PulpException")
        ELSE IF gtype = "conditional" THEN RepoRaise(rs, sch, "NotImplementedError")
        ELSE StoreGroups(rs, sch,
                 [repo EXCEPT !.packagegroups = DictSet(@, groupid, changed)], exists)

\* RepoApi.delete_package_from_group, lines 310-338
delete_package_from_group(rs, sch, repoid, groupid, pkg_name, gtype, exists) ==
    LET repo == repository(rs, repoid)
        group == repo.packagegroups[groupid]
        list == group[ListOf(gtype)]
        changed == IF InList(list, pkg_name)
                   THEN [group EXCEPT ![ListOf(gtype)] = ListRemove(list, pkg_name)]
                   ELSE group
    IN  IF _get_existing_repo(rs, repoid) # "none"
        THEN RepoRaise(rs, sch, "PulpException")
        ELSE IF groupid \notin DOMAIN repo.packagegroups
        THEN RepoRaise(rs, sch, "PulpException")
        ELSE IF group.immutable THEN RepoRaise(rs, sch, "PulpException")
        ELSE IF gtype = "conditional" THEN RepoRaise(rs, sch, "NotImplementedError")
        ELSE StoreGroups(rs, sch,
                 [repo EXCEPT !.packagegroups = DictSet(@, groupid, changed)], exists)

\* RepoApi.delete_packagegroupcategory, lines 360-372
delete_packagegroupcategory(rs, sch, repoid, categoryid, exists) ==
    LET repo == repository(rs, repoid)
    IN  IF _get_existing_repo(rs, repoid) # "none"
        THEN RepoRaise(rs, sch, "PulpException")
        ELSE IF categoryid \notin DOMAIN repo.packagegroupcategories
        THEN RepoReturn(rs, sch, None)
        ELSE IF repo.packagegroupcategories[categoryid].immutable
        THEN RepoRaise(rs, sch, "PulpException")
        ELSE StoreGroups(rs, sch,
                 [repo EXCEPT !.packagegroupcategories = DictDel(@, categoryid)], exists)

\* RepoApi.update_packagegroupcategory, lines 374-385
update_packagegroupcategory(rs, sch, repoid, pgc, exists) ==
    LET repo == repository(rs, repoid)
    IN  IF _get_existing_repo(rs, repoid) # "none"
        THEN RepoRaise(rs, sch, "PulpException")
        ELSE IF pgc.id \in DOMAIN repo.packagegroupcategories
                /\ repo.packagegroupcategories[pgc.id].immutable
        THEN RepoRaise(rs, sch, "PulpException")
        ELSE StoreGroups(rs, sch,
                 [repo EXCEPT !.packagegroupcategories = DictSet(@, pgc.id, pgc)], exists)

\* RepoApi.update_packagegroupcategories, lines 387-399
update_packagegroupcategories(rs, sch, repoid, pgclist, exists) ==
    LET repo == repository(rs, repoid)
        items == UpdateItems(repo.packagegroupcategories, pgclist, 1)
    IN  IF _get_existing_repo(rs, repoid) # "none"
        THEN RepoRaise(rs, sch, "PulpException")
        ELSE IF items.err # "none" THEN RepoRaise(rs, sch, items.err)
        ELSE StoreGroups(rs, sch,
                 [repo EXCEPT !.packagegroupcategories = items.dict], exists)

----------------------------------------------------------------------------
(* The calls of the repository api, one step each *)

Create(id, sync_schedule) ==
    LET r == create(repos, schedules, id, sync_schedule)
    IN  /\ Cardinality(repos) < MaxDocs
        /\ repos' = r.repos
        /\ schedules' = r.schedules
        /\ Outcome("create", [id |-> id, sync_schedule |-> sync_schedule], r)
        /\ UNCHANGED managerSide

Delete(id) ==
    LET r == delete(repos, schedules, id)
    IN  /\ repos' = r.repos
        /\ schedules' = r.schedules
        /\ Outcome("delete",
                   [id |-> id], r)
        /\ UNCHANGED managerSide

DeletePackagegroup(repoid, groupid, exists) ==
    LET r == delete_packagegroup(repos, schedules, repoid, groupid, exists)
    IN  /\ repos' = r.repos
        /\ schedules' = r.schedules
        /\ Outcome("delete_packagegroup",
                   [repoid |-> repoid, groupid |-> groupid], r)
        /\ UNCHANGED managerSide

UpdatePackagegroup(repoid, pg, exists) ==
    LET r == update_packagegroup(repos, schedules, repoid, pg, exists)
    IN  /\ repos' = r.repos
        /\ schedules' = r.schedules
        /\ Outcome("update_packagegroup",
                   [repoid |-> repoid, pg |-> pg], r)
        /\ UNCHANGED managerSide

UpdatePackagegroups(repoid, pglist, exists) ==
    LET r == update_packagegroups(repos, schedules, repoid, pglist, exists)
    IN  /\ repos' = r.repos
        /\ schedules' = r.schedules
        /\ Outcome("update_packagegroups",
                   [repoid |-> repoid, pglist |-> pglist], r)
        /\ UNCHANGED managerSide

AddPackageToGroup(repoid, groupid, pkg_name, gtype, exists) ==
    LET r == add_package_to_group(repos, schedules, repoid, groupid, pkg_name, gtype, exists)
    IN  /\ repos' = r.repos
        /\ schedules' = r.schedules
        /\ Outcome("add_package_to_group",
                   [repoid |-> repoid, groupid |-> groupid,
                    pkg_name |-> pkg_name, gtype |-> gtype], r)
        /\ UNCHANGED managerSide

DeletePackageFromGroup(repoid, groupid, pkg_name, gtype, exists) ==
    LET r == delete_package_from_group(repos, schedules, repoid, groupid, pkg_name, gtype, exists)
    IN  /\ repos' = r.repos
        /\ schedules' = r.schedules
        /\ Outcome("delete_package_from_group",
                   [repoid |-> repoid, groupid |-> groupid,
                    pkg_name |-> pkg_name, gtype |-> gtype], r)
        /\ UNCHANGED managerSide

DeletePackagegroupcategory(repoid, categoryid, exists) ==
    LET r == delete_packagegroupcategory(repos, schedules, repoid, categoryid, exists)
    IN  /\ repos' = r.repos
        /\ schedules' = r.schedules
        /\ Outcome("delete_packagegroupcategory",
                   [repoid |-> repoid, categoryid |-> categoryid], r)
        /\ UNCHANGED managerSide

UpdatePackagegroupcategory(repoid, pgc, exists) ==
    LET r == update_packagegroupcategory(repos, schedules, repoid, pgc, exists)
    IN  /\ repos' = r.repos
        /\ schedules' = r.schedules
        /\ Outcome("update_packagegroupcategory",
                   [repoid |-> repoid, pgc |-> pgc], r)
        /\ UNCHANGED managerSide

UpdatePackagegroupcategories(repoid, pgclist, exists) ==
    LET r == update_packagegroupcategories(repos, schedules, repoid, pgclist, exists)
    IN  /\ repos' = r.repos
        /\ schedules' = r.schedules
        /\ Outcome("update_packagegroupcategories",
                   [repoid |-> repoid, pgclist |-> pgclist], r)
        /\ UNCHANGED managerSide

\* repository ids callers pass: "r1" is the one that gets created
NewRepoIds == {"r1"}
RepoIds == {"r1", "r2"}
GroupIds == {"g1", "g2"}
CategoryIds == {"c1"}
PkgNames == {"p"}
GTypes == {"default", "conditional"}

\* package groups callers pass
PackageGroups ==
    {PackageGroup("g1", "a", FALSE), PackageGroup("g1", "b", FALSE),
     PackageGroup("g1", "a", TRUE)}
PackageGroupLists ==
    {<<PackageGroup("g2", "a", FALSE), PackageGroup("g1", "b", FALSE)>>}

\* package group categories callers pass
PackageGroupCategories ==
    {PackageGroupCategory("c1", "a", FALSE), PackageGroupCategory("c1", "b", FALSE),
     PackageGroupCategory("c1", "a", TRUE)}
PackageGroupCategoryLists ==
    {<<PackageGroupCategory("c2", "a", FALSE), PackageGroupCategory("c1", "b", FALSE)>>}

\* The repository api starts on an empty collection; no manager is in use.
RepoInit ==
    /\ readable = {}
    /\ confFiles = [path \in ConfigDirs |-> EmptyDict]
    /\ pluginFiles = [path \in PluginDirs |-> EmptyDict]
    /\ manager = None
    /\ lastCall = "start"
    /\ lastArgs = NoArgs
    /\ lastErr = "none"
    /\ lastResult = None
    /\ importerLoads = 0
    /\ distributorLoads = 0
    /\ finalized = FALSE
    /\ repos = {}
    /\ schedules = EmptyDict

RepoNext ==
    \/ \E id \in NewRepoIds, sync_schedule \in Schedules : Create(id, sync_schedule)
    \/ \E id \in RepoIds : Delete(id)
    \/ \E repoid \in RepoIds, groupid \in GroupIds, exists \in BOOLEAN :
           DeletePackagegroup(repoid, groupid, exists)
    \/ \E repoid \in RepoIds, pg \in PackageGroups, exists \in BOOLEAN :
           UpdatePackagegroup(repoid, pg, exists)
    \/ \E repoid \in RepoIds, pglist \in PackageGroupLists, exists \in BOOLEAN :
           UpdatePackagegroups(repoid, pglist, exists)
    \/ \E repoid \in RepoIds, groupid \in GroupIds, pkg_name \in PkgNames,
          gtype \in GTypes, exists \in BOOLEAN :
           AddPackageToGroup(repoid, groupid, pkg_name, gtype, exists)
    \/ \E repoid \in RepoIds, groupid \in GroupIds, pkg_name \in PkgNames,
          gtype \in GTypes, exists \in BOOLEAN :
           DeletePackageFromGroup(repoid, groupid, pkg_name, gtype, exists)
    \/ \E repoid \in RepoIds, categoryid \in CategoryIds, exists \in BOOLEAN :
           DeletePackagegroupcategory(repoid, categoryid, exists)
    \/ \E repoid \in RepoIds, pgc \in PackageGroupCategories, exists \in BOOLEAN :
           UpdatePackagegroupcategory(repoid, pgc, exists)
    \/ \E repoid \in RepoIds, pgclist \in PackageGroupCategoryLists, exists \in BOOLEAN :
           UpdatePackagegroupcategories(repoid, pgclist, exists)

RepoSpec == RepoInit /\ [][RepoNext]_vars

----------------------------------------------------------------------------
(* Claims about the repository api *)

\* the ids of the groups, or of the categories, a call is about
TargetIds(call, args) ==
    CASE call \in {"delete_packagegroup", "add_package_to_group",
                   "delete_package_from_group"} -> {args.groupid}
      [] call = "update_packagegroup" -> {args.pg.id}
      [] call = "update_packagegroups" ->
             {args.pglist[i].id : i \in DOMAIN args.pglist}
      [] call = "delete_packagegroupcategory" -> {args.categoryid}
      [] call = "update_packagegroupcategory" -> {args.pgc.id}
      [] call = "update_packagegroupcategories" ->
             {args.pgclist[i].id : i \in DOMAIN args.pgclist}

GroupCalls == {"delete_packagegroup", "update_packagegroup", "update_packagegroups",
               "add_package_to_group", "delete_package_from_group"}
CategoryCalls == {"delete_packagegroupcategory", "update_packagegroupcategory",
                  "update_packagegroupcategories"}

\* the stored groups, or categories, of a repository that are immutable
Immutable(dict) == {id \in DOMAIN dict : dict[id].immutable}

\* C32: a package group call about an immutable group of a stored repository,
\* and a category call about an immutable category, raises PulpException
\* and leaves the collection and the schedules as they were; no call of
\* these eight changes or removes a stored immutable group or category.
C32_ImmutableIsNeverChanged ==
    [][ lastCall' \in GroupCalls \cup CategoryCalls =>
          \A d \in repos :
              /\ (/\ lastCall' \in GroupCalls
                  /\ lastArgs'.repoid = d.id
                  /\ TargetIds(lastCall', lastArgs') \cap Immutable(d.packagegroups) # {})
                 => (lastErr' = "PulpException" /\ repos' = repos /\ schedules' = schedules)
              /\ (/\ lastCall' \in CategoryCalls
                  /\ lastArgs'.repoid = d.id
                  /\ TargetIds(lastCall', lastArgs')
                         \cap Immutable(d.packagegroupcategories) # {})
                 => (lastErr' = "PulpException" /\ repos' = repos /\ schedules' = schedules)
              /\ \E e \in repos' :
                     /\ e._id = d._id
                     /\ \A id \in Immutable(d.packagegroups) :
                            /\ id \in DOMAIN e.packagegroups
                            /\ e.packagegroups[id] = d.packagegroups[id]
                     /\ \A id \in Immutable(d.packagegroupcategories) :
                            /\ id \in DOMAIN e.packagegroupcategories
                            /\ e.packagegroupcategories[id] = d.packagegroupcategories[id]
      ]_vars

\* C32 witness: a list whose first item is a new group and whose second item
\* would rename an immutable group was refused, and the new group is not stored
C32_Witness ==
    /\ lastCall = "update_packagegroups"
    /\ lastErr = "PulpException"
    /\ \E d \in repos :
           /\ d.id = lastArgs.repoid
           /\ "g1" \in Immutable(d.packagegroups)
           /\ d.packagegroups["g1"] # lastArgs.pglist[2]
           /\ lastArgs.pglist[1].id \notin DOMAIN d.packagegroups
           /\ "c1" \in Immutable(d.packagegroupcategories)

\* C33: create with the id of a stored repository, or with an invalid sync
\* schedule, raises PulpException and changes neither the collection nor
\* the schedules; after every call no two stored repositories have the same id.
C33_CreateRefusesDuplicates ==
    [][ /\ (lastCall' = "create"
               /\ \/ \E d \in repos : d.id = lastArgs'.id
                  \/ lastArgs'.sync_schedule \notin ValidSchedules \cup {NoneStr})
           => (lastErr' = "PulpException" /\ repos' = repos /\ schedules' = schedules)
        /\ \A d, e \in repos' : d.id = e.id => d = e ]_vars

\* C33 witness: a create with a valid schedule was refused for a stored
\* repository that has none
C33_Witness ==
    /\ lastCall = "create"
    /\ lastErr = "PulpException"
    /\ lastArgs.sync_schedule \in ValidSchedules
    /\ \E d \in repos : d.id = lastArgs.id /\ d.sync_schedule = NoneStr
    /\ schedules = EmptyDict

====
